---- MODULE Spec2Model ----
(***************************************************************************)
(* Task store and dependency graph of project_tools (TodoManager in        *)
(* project_tools/todo_manager.py).                                         *)
(*                                                                         *)
(* todo_data['todos'] is a list of records, todo_data['dependencies'] a    *)
(* dict from str(dependent id) to the list of its prerequisite ids.  Every *)
(* mutating method rewrites the whole document through _save_todos, which  *)
(* returns False when the write raises.                                    *)
(*                                                                         *)
(* Every method is an operator from the store and the arguments to the     *)
(* store after the call, the returned value and whether the document was   *)
(* written; the actions apply these operators.                             *)
(***************************************************************************)
EXTENDS Integers, Sequences, FiniteSets, TLC

\* Largest id add_todo may hand out in the model.
MaxId == 3
\* Largest number of edges the adjacency index may hold in the model.
MaxEdges == 2
\* Largest number of edges in an adjacency index found in a document.
MaxLoadedEdges == 4
\* Largest number of change records with a todo the changelog may hold in
\* the model.
MaxLogged == 1
\* Largest number of todos in the specifications of the task store alone and
\* of the completion.
MaxTasks == 2
\* Number of document writes that fail in one behaviour of those.
MaxWriteFailures == 1

\* Largest number of edges in the behaviours that update the fields of the
\* records.
MaxStoreEdges == 1
\* Ids the callers pass to the methods: the ids of existing, deleted and not
\* yet created todos.
IdInputs == 1..MaxId

\* IdInputs, and 0, which no todo ever has.
AnyId == 0..MaxId

\* Statuses the callers pass to update_todo_status.
StatusInputs == {"todo", "complete"}

VARIABLES
    todos,          \* todo_data['todos']: sequence of todo records
    dependencies,   \* todo_data['dependencies']: str(id) -> sequence of ids
    disk,           \* content of the todo.json document
    faults,         \* number of document writes that are still going to fail
    changelog_data, \* _VersionManager.changelog_data
    changelog_disk  \* content of the changelog.json document

vars == <<todos, dependencies, disk, faults, changelog_data, changelog_disk>>

\* A dict without keys.
EmptyDict == <<>>

\* str(todo_id)
str(n) == ToString(n)

\* int(todo_id_str)
int(s) == CHOOSE n \in 0..(MaxId + 1) : ToString(n) = s

\* x in list
InList(x, list) == \E i \in 1..Len(list) : list[i] = x

\* dict.get(key, [])
DictGet(d, key) == IF key \in DOMAIN d THEN d[key] ELSE <<>>

\* dict.setdefault(key, []): the dict after the call
SetDefault(d, key) ==
    [k \in (DOMAIN d) \cup {key} |-> IF k \in DOMAIN d THEN d[k] ELSE <<>>]

\* del dict[key]
DictDel(d, key) == [k \in (DOMAIN d) \ {key} |-> d[k]]

\* list.remove(x): the list without the first occurrence of x
ListRemove(list, x) ==
    LET i == CHOOSE j \in 1..Len(list) :
                 list[j] = x /\ \A k \in 1..(j - 1) : list[k] # x
    IN [k \in 1..(Len(list) - 1) |-> IF k < i THEN list[k] ELSE list[k + 1]]

\* Number of edges in an adjacency index.
RECURSIVE SumLen(_, _)
SumLen(d, keys) ==
    IF keys = {} THEN 0
    ELSE LET k == CHOOSE x \in keys : TRUE
         IN Len(d[k]) + SumLen(d, keys \ {k})

NumEdges(d) == SumLen(d, DOMAIN d)

\* get_todo_by_id: position of the first record with that id, 0 for None.
get_todo_by_id(ts, todo_id) ==
    IF \E i \in 1..Len(ts) : ts[i].id = todo_id
    THEN CHOOSE i \in 1..Len(ts) :
             ts[i].id = todo_id /\ \A j \in 1..(i - 1) : ts[j].id # todo_id
    ELSE 0

\* todo.get('status') of the first record with that id ("None" when absent)
StatusOf(ts, todo_id) ==
    IF get_todo_by_id(ts, todo_id) = 0 THEN "None"
    ELSE ts[get_todo_by_id(ts, todo_id)].status

\* Ids of the records in the store.
TodoIds(ts) == {ts[i].id : i \in 1..Len(ts)}

\* _get_dependencies_recursive that passes over a prerequisite the current
\* path has already visited, without adding it.
RECURSIVE _get_dependencies_recursive_skip_visited(_, _, _)
_get_dependencies_recursive_skip_visited(deps, todo_id, visited) ==
    LET visited1 == visited \cup {todo_id}
        todo_deps == DictGet(deps, str(todo_id))
        direct == {todo_deps[i] : i \in 1..Len(todo_deps)} \ visited1
    IN direct \cup
       UNION {_get_dependencies_recursive_skip_visited(deps, dep_id, visited1) :
                  dep_id \in direct}

\* _get_dependencies_recursive: every recursive call gets its own copy of
\* the visited set, so only the nodes on the current path stop the descent.
RECURSIVE _get_dependencies_recursive(_, _, _)
_get_dependencies_recursive(deps, todo_id, visited) ==
    IF todo_id \in visited THEN {}
    ELSE LET visited1 == visited \cup {todo_id}
             todo_deps == DictGet(deps, str(todo_id))
             direct == {todo_deps[i] : i \in 1..Len(todo_deps)}
         IN direct \cup
            UNION {_get_dependencies_recursive(deps, dep_id, visited1) :
                       dep_id \in direct}

\* _get_dependents_recursive: the todos whose lists hold todo_id, and theirs.
RECURSIVE _get_dependents_recursive(_, _, _)
_get_dependents_recursive(deps, todo_id, visited) ==
    IF todo_id \in visited THEN {}
    ELSE LET visited1 == visited \cup {todo_id}
             direct == {int(k) : k \in {key \in DOMAIN deps :
                                            InList(todo_id, deps[key])}}
         IN direct \cup
            UNION {_get_dependents_recursive(deps, dependent_id, visited1) :
                       dependent_id \in direct}

\* get_dependency_chain
get_dependency_chain(deps, todo_id) ==
    [todo_id |-> todo_id,
     dependencies |-> _get_dependencies_recursive(deps, todo_id, {}),
     dependents |-> _get_dependents_recursive(deps, todo_id, {})]

\* _would_create_circular_dependency: is todo_id among the todos that
\* already depend on depends_on_id.
_would_create_circular_dependency(deps, todo_id, depends_on_id) ==
    todo_id \in _get_dependents_recursive(deps, depends_on_id, {})

\* get_blocked_todos following the prerequisites of prerequisites as well.
get_blocked_todos_transitive(ts, deps) ==
    {int(key) : key \in {k \in DOMAIN deps :
        /\ get_todo_by_id(ts, int(k)) # 0
        /\ StatusOf(ts, int(k)) # "complete"
        /\ \E dep_id \in _get_dependencies_recursive(deps, int(k), {}) :
               \/ get_todo_by_id(ts, dep_id) = 0
               \/ StatusOf(ts, dep_id) # "complete"}}

\* get_blocked_todos that takes a complete prerequisite for a blocking one.
get_blocked_todos_inverted(ts, deps) ==
    {int(key) : key \in {k \in DOMAIN deps :
        /\ get_todo_by_id(ts, int(k)) # 0
        /\ StatusOf(ts, int(k)) # "complete"
        /\ \E i \in 1..Len(deps[k]) :
               \/ get_todo_by_id(ts, deps[k][i]) = 0
               \/ StatusOf(ts, deps[k][i]) = "complete"}}

\* get_blocked_todos with the break one level up: only the first
\* prerequisite of a todo is examined.
get_blocked_todos_first(ts, deps) ==
    {int(key) : key \in {k \in DOMAIN deps :
        /\ get_todo_by_id(ts, int(k)) # 0
        /\ StatusOf(ts, int(k)) # "complete"
        /\ deps[k] # <<>>
        /\ \/ get_todo_by_id(ts, deps[k][1]) = 0
           \/ StatusOf(ts, deps[k][1]) # "complete"}}

\* get_blocked_todos: ids of the todos it returns.  A key whose todo is
\* missing or complete is skipped; a prerequisite that is missing or not
\* complete blocks.
get_blocked_todos(ts, deps) ==
    {int(key) : key \in {k \in DOMAIN deps :
        /\ get_todo_by_id(ts, int(k)) # 0
        /\ StatusOf(ts, int(k)) # "complete"
        /\ \E i \in 1..Len(deps[k]) :
               \/ get_todo_by_id(ts, deps[k][i]) = 0
               \/ StatusOf(ts, deps[k][i]) # "complete"}}

\* get_unblocked_todos without the filter on the status.
get_unblocked_todos_all(ts, deps) ==
    {ts[i].id : i \in 1..Len(ts)} \ get_blocked_todos(ts, deps)

\* get_unblocked_todos: ids of the not complete records that are not among
\* the blocked ids.
get_unblocked_todos(ts, deps) ==
    {ts[i].id : i \in {j \in 1..Len(ts) : ts[j].status # "complete"}}
        \ get_blocked_todos(ts, deps)

\* The document _save_todos writes.
Document(ts, deps) == [todos |-> ts, dependencies |-> deps]

\* Outcomes of the next write: it raises only while the file system still
\* has a fault in store.
WriteOutcomes == IF faults > 0 THEN BOOLEAN ELSE {TRUE}

\* What is left of a document when json.dump raises after open(path, 'w')
\* has truncated the file: a text that is not a document.
Torn == [torn |-> TRUE]

\* The documents a write with result ok may leave, over the document old:
\* the new one; or, when open or json.dump raised, the old one or a torn one.
Written(old, data, ok) == IF ok THEN {data} ELSE {old, Torn}

\* _save_todos: rewrites the document and returns True, or returns False.
_save_todos(data, ok) ==
    /\ disk' \in Written(disk, data, ok)
    /\ faults' = IF ok THEN faults ELSE faults - 1

\* The outcome of a call: the store after it, whether it called _save_todos,
\* and the returned value.
Outcome(ts, deps, wrote, ret) ==
    [todos |-> ts, dependencies |-> deps, wrote |-> wrote, ret |-> ret]

\* Value of a field that holds None.
None == "None"

\* todo_id of a change record without a todo (None).
NoTodo == 0

\* f"{major}.{minor}.{patch}"
FormatVersion(major, minor, patch) ==
    ToString(major) \o "." \o ToString(minor) \o "." \o ToString(patch)

\* initial_version
InitialVersion == FormatVersion(1, 0, 0)

\* _load_changelog without a document: the default structure.
DefaultChangelog ==
    [current_version |-> InitialVersion,
     versions |-> (InitialVersion :>
        [date |-> "today",
         changes |-> <<[type |-> "feature",
                        description |->
                            "Initial release with version management system",
                        todo_id |-> NoTodo]>>])]

\* _VersionManager after construction on a project without changelog.json.
FreshChangelog ==
    /\ changelog_data = DefaultChangelog
    /\ changelog_disk = DefaultChangelog

\* State after construction on a project without todo.json.
Fresh ==
    /\ todos = <<>>
    /\ dependencies = EmptyDict
    /\ disk = Document(<<>>, EmptyDict)
    /\ FreshChangelog

\* The file system takes every write.
Init == Fresh /\ faults = 0

\* max([t.get('id', 0) for t in todos], default=0)
MaxTodoId(ts) ==
    IF ts = <<>> THEN 0
    ELSE CHOOSE m \in TodoIds(ts) : \A n \in TodoIds(ts) : n <= m

\* dict.update(other): the dict after the call
DictUpdate(d, other) ==
    [k \in (DOMAIN d) \cup (DOMAIN other) |->
        IF k \in DOMAIN other THEN other[k] ELSE d[k]]

\* Defaults of add_todo's priority and category arguments, and the title
\* of the calls that pass nothing else.
DefaultPriority == 5

DefaultCategory == "feature"

DefaultTitle == "Add login"

\* No custom fields.
NoFields == <<>>

\* add_todo that appends the record and returns its id without the write.
add_todo_unsaved(ts, deps, title, priority, category, custom_fields, ok) ==
    LET next_id == MaxTodoId(ts) + 1
        new_todo == [id |-> next_id, title |-> title, priority |-> priority,
                     status |-> "todo", category |-> category,
                     completed_date |-> None]
    IN Outcome(Append(ts, DictUpdate(new_todo, custom_fields)), deps, FALSE,
               next_id)

\* add_todo: returns the new id, or -1 when the write failed.  (A record
\* without completed_date holds None there; the description, the dates and
\* the notes are left out.)
add_todo(ts, deps, title, priority, category, custom_fields, ok) ==
    LET next_id == MaxTodoId(ts) + 1
        new_todo == [id |-> next_id, title |-> title, priority |-> priority,
                     status |-> "todo", category |-> category,
                     completed_date |-> None]
    IN Outcome(Append(ts, DictUpdate(new_todo, custom_fields)), deps, TRUE,
               IF ok THEN next_id ELSE -1)

\* update_todo_status that restores the record when the write has failed.
update_todo_status_rolled_back(ts, deps, todo_id, status, ok) ==
    LET todo == get_todo_by_id(ts, todo_id)
    IN IF todo # 0
       THEN Outcome(IF ok
                    THEN [ts EXCEPT ![todo] =
                             [@ EXCEPT !.status = status,
                                       !.completed_date =
                                           IF status = "complete" THEN "today"
                                           ELSE @]]
                    ELSE ts,
                    deps, TRUE, ok)
       ELSE Outcome(ts, deps, FALSE, FALSE)

\* update_todo_status
update_todo_status(ts, deps, todo_id, status, ok) ==
    LET todo == get_todo_by_id(ts, todo_id)
    IN IF todo # 0
       THEN Outcome([ts EXCEPT ![todo] =
                        [@ EXCEPT !.status = status,
                                  !.completed_date =
                                      IF status = "complete" THEN "today"
                                      ELSE @]],
                    deps, TRUE, ok)
       ELSE Outcome(ts, deps, FALSE, FALSE)

\* delete_todo: drops every record with that id, leaves the edges alone.
delete_todo(ts, deps, todo_id, ok) ==
    LET kept == SelectSeq(ts, LAMBDA t : t.id # todo_id)
    IN IF Len(kept) < Len(ts)
       THEN Outcome(kept, deps, TRUE, ok)
       ELSE Outcome(kept, deps, FALSE, FALSE)

\* The test of line 302 with "and" for "or".
BothTodosExist_either(ts, todo_id, depends_on_id) ==
    ~(get_todo_by_id(ts, todo_id) = 0 /\ get_todo_by_id(ts, depends_on_id) = 0)

\* add_dependency, line 302: both ids resolve to a todo.
BothTodosExist(ts, todo_id, depends_on_id) ==
    ~(get_todo_by_id(ts, todo_id) = 0 \/ get_todo_by_id(ts, depends_on_id) = 0)

\* add_dependency, lines 309-316: once both checks have passed.
AppendDependency(ts, deps, todo_id, depends_on_id, ok) ==
    LET deps1 == SetDefault(deps, str(todo_id))
    IN IF ~InList(depends_on_id, deps1[str(todo_id)])
       THEN Outcome(ts, [deps1 EXCEPT ![str(todo_id)] =
                                          Append(@, depends_on_id)],
                    TRUE, ok)
       ELSE Outcome(ts, deps1, FALSE, TRUE)

\* add_dependency that appends as soon as both todos exist.
add_dependency_unchecked(ts, deps, todo_id, depends_on_id, ok) ==
    IF get_todo_by_id(ts, todo_id) = 0 \/ get_todo_by_id(ts, depends_on_id) = 0
    THEN Outcome(ts, deps, FALSE, FALSE)
    ELSE Outcome(ts, [SetDefault(deps, str(todo_id)) EXCEPT ![str(todo_id)] =
                          Append(@, depends_on_id)],
                 TRUE, ok)

\* add_dependency
add_dependency(ts, deps, todo_id, depends_on_id, ok) ==
    IF ~BothTodosExist(ts, todo_id, depends_on_id)
    THEN Outcome(ts, deps, FALSE, FALSE)
    ELSE IF _would_create_circular_dependency(deps, todo_id, depends_on_id)
    THEN Outcome(ts, deps, FALSE, FALSE)
    ELSE AppendDependency(ts, deps, todo_id, depends_on_id, ok)

\* Lines 324-326 without the del of the emptied list.
RemoveEdge_keep_key(deps, key, depends_on_id) ==
    [deps EXCEPT ![key] = ListRemove(deps[key], depends_on_id)]

\* remove_dependency, lines 324-326: the index without the edge; a list
\* that became empty loses its key.
RemoveEdge(deps, key, depends_on_id) ==
    LET rest == ListRemove(deps[key], depends_on_id)
    IN IF rest = <<>> THEN DictDel(deps, key)
       ELSE [deps EXCEPT ![key] = rest]

\* remove_dependency
remove_dependency(ts, deps, todo_id, depends_on_id, ok) ==
    IF InList(depends_on_id, DictGet(deps, str(todo_id)))
    THEN Outcome(ts, RemoveEdge(deps, str(todo_id), depends_on_id), TRUE, ok)
    ELSE Outcome(ts, deps, FALSE, FALSE)

\* A call with outcome r, whose write, if any, has result ok.
Apply(r, ok) ==
    /\ todos' = r.todos
    /\ dependencies' = r.dependencies
    /\ IF r.wrote THEN _save_todos(Document(todos', dependencies'), ok)
       ELSE UNCHANGED <<disk, faults>>
    /\ UNCHANGED <<changelog_data, changelog_disk>>

AddTodo ==
    \E ok \in WriteOutcomes :
        /\ MaxTodoId(todos) < MaxId
        /\ Apply(add_todo(todos, dependencies, DefaultTitle, DefaultPriority,
                          DefaultCategory, NoFields, ok), ok)

UpdateTodoStatus ==
    \E todo_id \in IdInputs, status \in StatusInputs, ok \in WriteOutcomes :
        Apply(update_todo_status(todos, dependencies, todo_id, status, ok), ok)

DeleteTodo ==
    \E todo_id \in IdInputs, ok \in WriteOutcomes :
        Apply(delete_todo(todos, dependencies, todo_id, ok), ok)

AddDependency ==
    \E todo_id \in IdInputs, depends_on_id \in IdInputs, ok \in WriteOutcomes :
        LET r == add_dependency(todos, dependencies, todo_id, depends_on_id,
                                ok)
        IN /\ NumEdges(r.dependencies) <= MaxEdges
           /\ Apply(r, ok)

RemoveDependency ==
    \E todo_id \in IdInputs, depends_on_id \in IdInputs, ok \in WriteOutcomes :
        Apply(remove_dependency(todos, dependencies, todo_id, depends_on_id,
                                ok), ok)

\* Every operation of the task store and of the dependency graph.
Next ==
    \/ AddTodo
    \/ UpdateTodoStatus
    \/ DeleteTodo
    \/ AddDependency
    \/ RemoveDependency

Spec == Init /\ [][Next]_vars

(***************************************************************************)
(* The graph the adjacency index stands for, defined without the code's    *)
(* traversals.                                                             *)
(***************************************************************************)

\* The edges <<dependent, prerequisite>> of an index.
Edges(deps) ==
    UNION {{<<int(k), deps[k][i]>> : i \in 1..Len(deps[k])} : k \in DOMAIN deps}

\* S and everything reachable from S along the edges E.
RECURSIVE Grow(_, _)
Grow(E, S) ==
    LET T == S \cup {e[2] : e \in {f \in E : f[1] \in S}}
    IN IF T = S THEN S ELSE Grow(E, T)

\* The direct prerequisites of x.
DirectPrereqs(deps, x) == {e[2] : e \in {f \in Edges(deps) : f[1] = x}}

\* x depends on y through one or more edges.
DependsOn(deps, x, y) == y \in Grow(Edges(deps), DirectPrereqs(deps, x))

\* The first record with id p is complete.
IsComplete(ts, p) == p \in TodoIds(ts) /\ StatusOf(ts, p) = "complete"

\* Ids of the records that are not complete.
NotCompleteIds(ts) == {t \in TodoIds(ts) : ~IsComplete(ts, t)}

\* The calls a claim is about, made in the current state.
AddDep(a, b, ok) == add_dependency(todos, dependencies, a, b, ok)

RemoveDep(a, b, ok) == remove_dependency(todos, dependencies, a, b, ok)

(***************************************************************************)
(* C1: the dependency graph stays acyclic: for no task A does              *)
(* dependencyChain(A).dependencies contain A.                              *)
(***************************************************************************)
C1_Acyclic ==
    \A a \in AnyId :
        a \notin get_dependency_chain(dependencies, a).dependencies

(***************************************************************************)
(* C2: addDependency(A, B) returns false and leaves the index as it was    *)
(* whenever B already depends on A, directly or through other tasks.       *)
(***************************************************************************)
C2_ReverseEdgeRejected ==
    \A a \in AnyId, b \in AnyId, ok \in BOOLEAN :
        DependsOn(dependencies, b, a)
            => /\ AddDep(a, b, ok).ret = FALSE
               /\ AddDep(a, b, ok).dependencies = dependencies

(***************************************************************************)
(* C3: for existing tasks A and B where B does not depend on A, directly   *)
(* or through other tasks, and the write succeeds, addDependency(A, B)     *)
(* returns true and the edge A -> B is present afterwards, also when B is  *)
(* already a prerequisite of A through other tasks.  (A = B is left out: a *)
(* self-edge is a cycle; so is an edge that already exists: that is C4.)   *)
(***************************************************************************)
C3_FailsOnlyForMissingOrCycle ==
    \A a \in TodoIds(todos), b \in TodoIds(todos) :
        (/\ a # b
         /\ <<a, b>> \notin Edges(dependencies)
         /\ ~DependsOn(dependencies, b, a))
            => /\ AddDep(a, b, TRUE).ret = TRUE
               /\ <<a, b>> \in Edges(AddDep(a, b, TRUE).dependencies)

(***************************************************************************)
(* C4: if the edge A -> B already exists, addDependency(A, B) returns true *)
(* and A's prerequisite list still holds B once.  (Stated for A # B: an    *)
(* edge A -> A is a cycle and should not exist.)                           *)
(***************************************************************************)
C4_ExistingEdgeSucceeds ==
    \A a \in AnyId, b \in AnyId, ok \in BOOLEAN :
        (a # b /\ <<a, b>> \in Edges(dependencies))
            => LET after == AddDep(a, b, ok).dependencies[str(a)]
               IN /\ AddDep(a, b, ok).ret = TRUE
                  /\ Cardinality({i \in 1..Len(after) : after[i] = b}) = 1

(***************************************************************************)
(* C5: for existing tasks A and B, in every reachable graph, the index     *)
(* after two calls addDependency(A, B) in a row equals the index after the *)
(* first, whether or not the writes succeed.                               *)
(***************************************************************************)
C5_AddTwiceSameAsOnce ==
    LET ids == TodoIds(todos)
    IN \A a \in ids, b \in ids, ok1 \in BOOLEAN :
           LET once == AddDep(a, b, ok1)
           IN \A ok2 \in BOOLEAN :
                  add_dependency(once.todos, once.dependencies, a, b, ok2)
                      .dependencies = once.dependencies

\* A first call has added an edge A -> B next to another edge, and the
\* second call leaves the index alone.
C5_Witness ==
    \E a \in TodoIds(todos), b \in TodoIds(todos) :
        /\ a # b
        /\ <<a, b>> \in Edges(dependencies)
        /\ NumEdges(dependencies) = 2
        /\ AddDep(a, b, TRUE).dependencies = dependencies

(***************************************************************************)
(* C6: addDependency(A, B) where A or B is not an existing task returns    *)
(* false, writes nothing, and leaves the index and the task records as     *)
(* they were.                                                              *)
(***************************************************************************)
C6_MissingEndpointRejected ==
    LET ids == TodoIds(todos)
    IN \A a \in AnyId, b \in AnyId :
           (a \notin ids \/ b \notin ids)
               => \A ok \in BOOLEAN :
                      LET r == AddDep(a, b, ok)
                      IN /\ r.ret = FALSE
                         /\ r.wrote = FALSE
                         /\ r.dependencies = dependencies
                         /\ r.todos = todos

\* A store with todos and an edge, where a call with an existing dependent
\* and a deleted prerequisite returns false.
C6_Witness ==
    \E a \in TodoIds(todos), b \in IdInputs \ TodoIds(todos) :
        /\ dependencies # EmptyDict
        /\ b < MaxTodoId(todos)
        /\ AddDep(a, b, TRUE).ret = FALSE

(***************************************************************************)
(* C7: no key of the adjacency index maps to an empty list;                *)
(* removeDependency(A, B) removes exactly the edge A -> B when it is       *)
(* present, dropping A's key when no prerequisite of A is left, and        *)
(* returns false with the index unchanged when the edge is absent.         *)
(***************************************************************************)
C7_NoEmptyEntries ==
    /\ \A k \in DOMAIN dependencies : dependencies[k] # <<>>
    /\ LET before == Edges(dependencies)
       IN \A a \in AnyId, b \in AnyId, ok \in BOOLEAN :
              LET r == RemoveDep(a, b, ok)
                  after == r.dependencies
              IN IF <<a, b>> \in before
                 THEN /\ Edges(after) = before \ {<<a, b>>}
                      /\ NumEdges(after) = NumEdges(dependencies) - 1
                      /\ (str(a) \in DOMAIN after)
                             = (DirectPrereqs(after, a) # {})
                      /\ \A k \in DOMAIN after : after[k] # <<>>
                      /\ r.ret = ok
                 ELSE /\ r.ret = FALSE
                      /\ after = dependencies

\* An index with the keys of two tasks, one of which loses its key when its
\* only prerequisite is removed.
C7_Witness ==
    \E a \in AnyId, b \in AnyId :
        /\ str(a) \in DOMAIN dependencies
        /\ dependencies[str(a)] = <<b>>
        /\ Cardinality(DOMAIN dependencies) = 2
        /\ Cardinality(DOMAIN RemoveDep(a, b, TRUE).dependencies) = 1

(***************************************************************************)
(* C8: a task T is in blockedTasks() iff T is not complete and at least    *)
(* one direct prerequisite of T is not complete (a prerequisite without a  *)
(* record is not complete); prerequisites further away are not consulted.  *)
(***************************************************************************)
C8_BlockedIffDirectPrereqIncomplete ==
    /\ get_blocked_todos(todos, dependencies) \subseteq TodoIds(todos)
    /\ \A t \in TodoIds(todos) :
           (t \in get_blocked_todos(todos, dependencies))
               = (/\ ~IsComplete(todos, t)
                  /\ \E p \in DirectPrereqs(dependencies, t) :
                         ~IsComplete(todos, p))

\* A task that is not blocked although a prerequisite of its complete
\* prerequisite is not complete.
C8_Witness ==
    \E t \in TodoIds(todos), p \in TodoIds(todos), q \in TodoIds(todos) :
        /\ Cardinality({t, p, q}) = 3
        /\ p \in DirectPrereqs(dependencies, t)
        /\ q \in DirectPrereqs(dependencies, p)
        /\ ~IsComplete(todos, t) /\ IsComplete(todos, p)
        /\ ~IsComplete(todos, q)
        /\ t \notin get_blocked_todos(todos, dependencies)
        /\ p \notin get_blocked_todos(todos, dependencies)

(***************************************************************************)
(* C9: blockedTasks() and unblockedTasks() partition the tasks that are    *)
(* not complete: they do not overlap, together they are all of them, and   *)
(* no complete task is in either.                                          *)
(***************************************************************************)
C9_BlockedUnblockedPartition ==
    LET blocked == get_blocked_todos(todos, dependencies)
        unblocked == get_unblocked_todos(todos, dependencies)
    IN /\ blocked \cap unblocked = {}
       /\ blocked \cup unblocked = NotCompleteIds(todos)

\* A blocked task, an unblocked task and a complete task with a prerequisite
\* that is not complete.
C9_Witness ==
    /\ get_blocked_todos(todos, dependencies) # {}
    /\ get_unblocked_todos(todos, dependencies) # {}
    /\ \E t \in TodoIds(todos) :
           /\ IsComplete(todos, t)
           /\ \E p \in DirectPrereqs(dependencies, t) : ~IsComplete(todos, p)

(***************************************************************************)
(* C10 as claimed, first sentence: after a successful addDependency(T2,    *)
(* T1) with T1 and T2 not complete, T2 is in blockedTasks() and T1 is not. *)
(* (Stated for the calls that leave the graph acyclic, so that a violation *)
(* does not rest on an edge that C1 says should not exist.)                *)
(***************************************************************************)
C10_Original ==
    \A t2 \in NotCompleteIds(todos), t1 \in NotCompleteIds(todos) :
        LET r == AddDep(t2, t1, TRUE)
            blocked == get_blocked_todos(todos, r.dependencies)
        IN (r.ret = TRUE /\ \A x \in AnyId : ~DependsOn(r.dependencies, x, x))
               => (t2 \in blocked /\ t1 \notin blocked)

(***************************************************************************)
(* C10 as amended: after a successful addDependency(T2, T1) with T1 and T2 *)
(* not complete, T2 is in blockedTasks(), and T1 is in it only if T1 has a *)
(* direct prerequisite of its own that is not complete; marking a task     *)
(* complete never adds a task to blockedTasks(); and a task that is not    *)
(* complete and whose direct prerequisites are all complete is in          *)
(* unblockedTasks() and not in blockedTasks().                             *)
(***************************************************************************)
C10_BlockingLifecycle ==
    LET open == NotCompleteIds(todos)
        blocked == get_blocked_todos(todos, dependencies)
        unblocked == get_unblocked_todos(todos, dependencies)
    IN /\ \A t2 \in open, t1 \in open :
              LET r == AddDep(t2, t1, TRUE)
                  after == get_blocked_todos(todos, r.dependencies)
              IN r.ret = TRUE
                     => /\ t2 \in after
                        /\ t1 \in after
                               => \E p \in DirectPrereqs(r.dependencies, t1) :
                                      ~IsComplete(todos, p)
       /\ \A t \in AnyId, ok \in BOOLEAN :
              get_blocked_todos(
                  update_todo_status(todos, dependencies, t, "complete", ok)
                      .todos,
                  dependencies) \subseteq blocked
       /\ \A t \in open :
              (\A p \in DirectPrereqs(dependencies, t) : IsComplete(todos, p))
                  => (t \in unblocked /\ t \notin blocked)

\* T1 has been marked complete (its completed_date is stamped) after
\* addDependency(T2, T1): nothing is blocked and T2 is unblocked.
C10_Witness ==
    \E t2 \in TodoIds(todos), t1 \in TodoIds(todos) :
        /\ t1 # t2
        /\ <<t2, t1>> \in Edges(dependencies)
        /\ todos[get_todo_by_id(todos, t1)].completed_date = "today"
        /\ IsComplete(todos, t1)
        /\ get_blocked_todos(todos, dependencies) = {}
        /\ t2 \in get_unblocked_todos(todos, dependencies)

\* Everything x depends on through one or more edges.
TransitivePrereqs(deps, x) == Grow(Edges(deps), DirectPrereqs(deps, x))

\* Every id of the index has a record, the ids are 1..Len(todos) and no
\* task depends on itself: what add, addDependency and updateStatus can
\* leave behind when a cycle is never accepted.
C11_LifecycleState ==
    /\ TodoIds(todos) = 1..Len(todos)
    /\ \A e \in Edges(dependencies) : {e[1], e[2]} \subseteq TodoIds(todos)
    /\ \A x \in TodoIds(todos) : ~DependsOn(dependencies, x, x)

(***************************************************************************)
(* C11 as claimed: in the states add, addDependency and updateStatus       *)
(* reach, a task that is not complete is in blockedTasks() whenever one of *)
(* its transitive prerequisites is not complete.                           *)
(***************************************************************************)
C11_Original ==
    C11_LifecycleState
        => \A t \in NotCompleteIds(todos) :
               (\E q \in TransitivePrereqs(dependencies, t) :
                    ~IsComplete(todos, q))
                   => t \in get_blocked_todos(todos, dependencies)

(***************************************************************************)
(* C11 as amended: in every state where no complete task has a direct      *)
(* prerequisite that is not complete, the direct-edge blocked predicate    *)
(* agrees with the multi-hop one: a task that is not complete is in        *)
(* blockedTasks() exactly when one of its transitive prerequisites is not  *)
(* complete.                                                               *)
(***************************************************************************)
C11_AgreesWhenCompletedInOrder ==
    (\A c \in TodoIds(todos) :
         IsComplete(todos, c)
             => \A p \in DirectPrereqs(dependencies, c) : IsComplete(todos, p))
        => LET blocked == get_blocked_todos(todos, dependencies)
           IN \A t \in NotCompleteIds(todos) :
                  (t \in blocked)
                      = (\E q \in TransitivePrereqs(dependencies, t) :
                             ~IsComplete(todos, q))

\* Tasks completed in order: t has the direct prerequisites p, complete and
\* without prerequisites, and q, not complete, and t is blocked.
C11_Witness ==
    /\ \A c \in TodoIds(todos) :
           IsComplete(todos, c)
               => \A p \in DirectPrereqs(dependencies, c) : IsComplete(todos, p)
    /\ \E t \in NotCompleteIds(todos), p \in TodoIds(todos),
          q \in NotCompleteIds(todos) :
           /\ Cardinality({t, p, q}) = 3
           /\ IsComplete(todos, p)
           /\ str(t) \in DOMAIN dependencies
           /\ dependencies[str(t)] = <<p, q>>
           /\ t \in get_blocked_todos(todos, dependencies)

(***************************************************************************)
(* A store constructed on a document that already holds an adjacency       *)
(* index: _load_todos takes the index as it finds it.                      *)
(***************************************************************************)

\* The subsets of S with at most k elements.
RECURSIVE SubsetsUpTo(_, _)
SubsetsUpTo(S, k) ==
    IF k = 0 \/ S = {} THEN {{}}
    ELSE LET x == CHOOSE y \in S : TRUE
         IN SubsetsUpTo(S \ {x}, k)
                \cup {T \cup {x} : T \in SubsetsUpTo(S \ {x}, k - 1)}

\* The elements of a set of integers in ascending order.
RECURSIVE SortedSeq(_)
SortedSeq(S) ==
    IF S = {} THEN <<>>
    ELSE LET m == CHOOSE x \in S : \A y \in S : x <= y
         IN <<m>> \o SortedSeq(S \ {m})

\* The index a document holds for the edges E.
IndexOf(E) ==
    [k \in {str(e[1]) : e \in E} |->
        SortedSeq({e[2] : e \in {f \in E : str(f[1]) = k}})]

\* Construction on a document with up to MaxLoadedEdges edges between the
\* ids of AnyId and no todos.
InitIndex ==
    /\ todos = <<>>
    /\ \E E \in SubsetsUpTo(AnyId \X AnyId, MaxLoadedEdges) :
           dependencies = IndexOf(E)
    /\ disk = Document(todos, dependencies)
    /\ faults = 0
    /\ FreshChangelog

\* The loaded index is taken apart edge by edge.
NextIndex == RemoveDependency

SpecIndex == InitIndex /\ [][NextIndex]_vars

(***************************************************************************)
(* C12: for every task id t and every adjacency index,                     *)
(* dependencyChain(t).dependencies is the set of ids reachable from t by   *)
(* one or more prerequisite edges and dependencyChain(t).dependents the    *)
(* set of ids from which t is reachable by one or more prerequisite edges  *)
(* (a node two branches share is included with its own prerequisites).     *)
(***************************************************************************)
C12_ChainIsReachability ==
    \A t \in AnyId :
        LET chain == get_dependency_chain(dependencies, t)
        IN /\ chain.dependencies = TransitivePrereqs(dependencies, t)
           /\ chain.dependents
                  = {x \in AnyId : t \in TransitivePrereqs(dependencies, x)}

\* A diamond: t reaches s directly and through a, s has the prerequisite
\* u, and the chain of t holds a, s and u.
C12_Witness ==
    \E t \in AnyId, a \in AnyId, s \in AnyId, u \in AnyId :
        /\ Cardinality({t, a, s, u}) = 4
        /\ Edges(dependencies) = {<<t, a>>, <<t, s>>, <<a, s>>, <<s, u>>}
        /\ get_dependency_chain(dependencies, t).dependencies = {a, s, u}
        /\ get_dependency_chain(dependencies, u).dependents = {t, a, s}

(***************************************************************************)
(* C13: referential integrity: every dependent id and every prerequisite   *)
(* id of the adjacency index resolves to an existing task, and no          *)
(* operation removes a task that still has incoming or outgoing edges.     *)
(* (Stated for the indexes without a cycle, so that a violation does not   *)
(* rest on an edge that C1 says should not exist.)                         *)
(***************************************************************************)
C13_ReferentialIntegrity ==
    (\A x \in AnyId : ~DependsOn(dependencies, x, x))
        => /\ \A e \in Edges(dependencies) :
                  {e[1], e[2]} \subseteq TodoIds(todos)
           /\ \A x \in TodoIds(todos), ok \in BOOLEAN :
                  (\E e \in Edges(dependencies) : x \in {e[1], e[2]})
                      => x \in TodoIds(delete_todo(todos, dependencies, x, ok)
                                           .todos)

(***************************************************************************)
(* The changelog store (_VersionManager in project_tools/                  *)
(* _version_manager.py) and complete_todo_with_changelog.  Every method is *)
(* an operator to the changelog after the call, the documents it handed to *)
(* _save_changelog with the result of each write, and the returned value.  *)
(***************************************************************************)

\* Outcome of a changelog method.
ChangeOutcome(cl, saves, ret) == [changelog |-> cl, saves |-> saves, ret |-> ret]

\* One call of _save_changelog with the current changelog_data.
Save(cl, ok) == [data |-> cl, ok |-> ok]

\* _save_changelog: the documents the calls of a method may leave, applied
\* in order to the document old.
RECURSIVE _save_changelog(_, _)
_save_changelog(old, saves) ==
    IF saves = <<>> THEN {old}
    ELSE UNION {_save_changelog(d, Tail(saves)) :
                    d \in Written(old, Head(saves).data, Head(saves).ok)}

\* Python's truth value of a description or message.
Falsy(x) == x \in {None, ""}

\* a or b
Or(a, b) == IF Falsy(a) THEN b ELSE a

\* todo.get(key, default)
TodoGet(todo, key, default) == IF key \in DOMAIN todo THEN todo[key] ELSE default

\* A version entry without changes, dated today.
NewVersionEntry == [date |-> "today", changes |-> <<>>]

\* add_change whose entry leaves the todo out.
add_change_no_todo_id(cl, change_type, description, todo_id, version, custom_fields, ok) ==
    LET v == IF version = None THEN cl.current_version ELSE version
        versions == IF v \in DOMAIN cl.versions THEN cl.versions
                    ELSE cl.versions @@ (v :> NewVersionEntry)
        change_entry == DictUpdate([type |-> change_type,
                                    description |-> description,
                                    todo_id |-> NoTodo], custom_fields)
        cl1 == [cl EXCEPT !.versions =
                   [versions EXCEPT ![v].changes = Append(@, change_entry)]]
    IN ChangeOutcome(cl1, <<Save(cl1, ok)>>, ok)

\* add_change that returns True whatever _save_changelog returns.
add_change_ignores_save(cl, change_type, description, todo_id, version, custom_fields, ok) ==
    LET v == IF version = None THEN cl.current_version ELSE version
        versions == IF v \in DOMAIN cl.versions THEN cl.versions
                    ELSE cl.versions @@ (v :> NewVersionEntry)
        change_entry == DictUpdate([type |-> change_type,
                                    description |-> description,
                                    todo_id |-> todo_id], custom_fields)
        cl1 == [cl EXCEPT !.versions =
                   [versions EXCEPT ![v].changes = Append(@, change_entry)]]
    IN ChangeOutcome(cl1, <<Save(cl1, ok)>>, TRUE)

\* add_change: the version is created when missing, the entry is appended
\* to it, and the changelog is saved.
add_change(cl, change_type, description, todo_id, version, custom_fields, ok) ==
    LET v == IF version = None THEN cl.current_version ELSE version
        versions == IF v \in DOMAIN cl.versions THEN cl.versions
                    ELSE cl.versions @@ (v :> NewVersionEntry)
        change_entry == DictUpdate([type |-> change_type,
                                    description |-> description,
                                    todo_id |-> todo_id], custom_fields)
        cl1 == [cl EXCEPT !.versions =
                   [versions EXCEPT ![v].changes = Append(@, change_entry)]]
    IN ChangeOutcome(cl1, <<Save(cl1, ok)>>, ok)

\* add_change_from_todo
add_change_from_todo(cl, ts, todo_id, change_type, custom_description, ok) ==
    LET todo == get_todo_by_id(ts, todo_id)
    IN IF todo = 0 THEN ChangeOutcome(cl, <<>>, FALSE)
       ELSE LET description ==
                    Or(custom_description,
                       TodoGet(ts[todo], "title",
                               "Todo #" \o ToString(todo_id)))
                custom_fields ==
                    [todo_priority |-> TodoGet(ts[todo], "priority", None),
                     todo_category |-> TodoGet(ts[todo], "category", None)]
            IN add_change(cl, change_type, description, todo_id, None,
                          custom_fields, ok)

\* Version components the model parses: every bump follows a change record
\* with a todo.
PartRange == 0..(MaxLogged + 2)

\* version.split('.') and int() of the parts: the components of a text of
\* one, two or three numbers, <<>> where int() raises ValueError.
ParseVersion(version) ==
    LET three == {p \in PartRange \X PartRange \X PartRange :
                     FormatVersion(p[1], p[2], p[3]) = version}
        two == {p \in PartRange \X PartRange :
                   ToString(p[1]) \o "." \o ToString(p[2]) = version}
        one == {n \in PartRange : ToString(n) = version}
    IN IF three # {} THEN CHOOSE p \in three : TRUE
       ELSE IF two # {}
            THEN LET p == CHOOSE q \in two : TRUE IN <<p[1], p[2], 0>>
       ELSE IF one # {} THEN <<CHOOSE n \in one : TRUE, 0, 0>>
       ELSE <<>>

\* version_type.lower()
lower(s) ==
    IF s \in {"MAJOR", "Major"} THEN "major"
    ELSE IF s \in {"MINOR", "Minor"} THEN "minor"
    ELSE IF s \in {"PATCH", "Patch"} THEN "patch"
    ELSE s

\* _increment_version where a minor increment forgets to reset the patch.
_increment_version_keep_patch(version, version_type) ==
    LET p == ParseVersion(version)
    IN IF p = <<>> THEN FormatVersion(1, 0, 1)
       ELSE IF lower(version_type) = "major"
            THEN FormatVersion(p[1] + 1, 0, 0)
       ELSE IF lower(version_type) = "minor"
            THEN FormatVersion(p[1], p[2] + 1, p[3])
       ELSE FormatVersion(p[1], p[2], p[3] + 1)

\* _increment_version
_increment_version(version, version_type) ==
    LET p == ParseVersion(version)
    IN IF p = <<>> THEN FormatVersion(1, 0, 1)
       ELSE IF lower(version_type) = "major"
            THEN FormatVersion(p[1] + 1, 0, 0)
       ELSE IF lower(version_type) = "minor"
            THEN FormatVersion(p[1], p[2] + 1, 0)
       ELSE FormatVersion(p[1], p[2], p[3] + 1)

\* bump_version that makes the new version current before it logs the
\* message.
bump_version_switch_first(cl, version_type, message, ok_message, ok) ==
    LET current_version == cl.current_version
        new_version == _increment_version(current_version, version_type)
        cl1 == [cl EXCEPT !.versions =
                   [v \in (DOMAIN cl.versions) \cup {new_version} |->
                       IF v = new_version THEN NewVersionEntry
                       ELSE cl.versions[v]],
                          !.current_version = new_version]
        logged == IF Falsy(message) THEN ChangeOutcome(cl1, <<>>, FALSE)
                  ELSE add_change(cl1, "docs", message, NoTodo, new_version,
                                  NoFields, ok_message)
        cl2 == logged.changelog
    IN ChangeOutcome(cl2, Append(logged.saves, Save(cl2, ok)),
                     IF ok THEN new_version ELSE current_version)

\* bump_version: returns the new version, or the old one when the last
\* write failed.
bump_version(cl, version_type, message, ok_message, ok) ==
    LET current_version == cl.current_version
        new_version == _increment_version(current_version, version_type)
        cl1 == [cl EXCEPT !.versions =
                   [v \in (DOMAIN cl.versions) \cup {new_version} |->
                       IF v = new_version THEN NewVersionEntry
                       ELSE cl.versions[v]]]
        logged == IF Falsy(message) THEN ChangeOutcome(cl1, <<>>, FALSE)
                  ELSE add_change(cl1, "docs", message, NoTodo, new_version,
                                  NoFields, ok_message)
        cl2 == [logged.changelog EXCEPT !.current_version = new_version]
    IN ChangeOutcome(cl2, Append(logged.saves, Save(cl2, ok)),
                     IF ok THEN new_version ELSE current_version)

\* complete_todo_with_changelog, lines 440-444: bump type of a change type.
BumpType(change_type) ==
    IF change_type = "feature" THEN "minor"
    ELSE IF change_type \in {"breaking", "major"} THEN "major"
    ELSE "patch"

\* Line 438 without the test of success.
ShouldBump_unconditional(success, auto_version_bump) == auto_version_bump

\* complete_todo_with_changelog, line 438: if success and auto_version_bump
ShouldBump(success, auto_version_bump) == success /\ auto_version_bump

\* Outcome of complete_todo_with_changelog: both stores after the call, the
\* writes of the two documents, the returned value.
CompletionOutcome(ts, deps, wrote, cl, saves, ret) ==
    [todos |-> ts, dependencies |-> deps, wrote |-> wrote, changelog |-> cl,
     saves |-> saves, ret |-> ret]

\* complete_todo_with_changelog; oks holds the result of the write of the
\* task document (todo), of the change record (change), of the bump message
\* (message) and of the new current version (bump).
complete_todo_with_changelog(ts, deps, cl, todo_id, change_type, change_description, auto_version_bump, oks) ==
    LET todo == get_todo_by_id(ts, todo_id)
        completed == update_todo_status(ts, deps, todo_id, "complete",
                                        oks.todo)
        description ==
            Or(change_description,
               TodoGet(ts[todo], "title", "Todo #" \o ToString(todo_id)))
        logged == add_change_from_todo(cl, completed.todos, todo_id,
                                       change_type, description, oks.change)
        bumped == bump_version(logged.changelog, BumpType(change_type),
                               "Auto-bump for completed todo #"
                                   \o ToString(todo_id),
                               oks.message, oks.bump)
    IN IF todo = 0
       THEN CompletionOutcome(ts, deps, FALSE, cl, <<>>, FALSE)
       ELSE IF ~completed.ret
       THEN CompletionOutcome(completed.todos, deps, completed.wrote, cl,
                              <<>>, FALSE)
       ELSE IF ShouldBump(logged.ret, auto_version_bump)
       THEN CompletionOutcome(completed.todos, deps, TRUE, bumped.changelog,
                              logged.saves \o bumped.saves, logged.ret)
       ELSE CompletionOutcome(completed.todos, deps, TRUE, logged.changelog,
                              logged.saves, logged.ret)

\* Write failures are possible: MaxWriteFailures of the writes fail.
InitFaulty == Fresh /\ faults = MaxWriteFailures

\* Title, priority and category the callers pass to add_todo.
TaskInputs ==
    {<<DefaultTitle, 8, "auth">>,
     <<"Fix logout", DefaultPriority, DefaultCategory>>}

\* Change types the callers pass: the three the bump distinguishes and one
\* it does not.
ChangeTypeInputs == {"feature", "breaking", "major", "bug"}

\* Descriptions the callers pass: none, an empty one, a text.
DescriptionInputs == {None, "", "Users can sign in"}

\* Results of the four writes of complete_todo_with_changelog.
OkVectors == [todo : BOOLEAN, change : BOOLEAN, message : BOOLEAN,
              bump : BOOLEAN]

\* The results the four writes may have while faults writes can still fail.
WriteOutcomeVectors ==
    {oks \in OkVectors :
        Cardinality({k \in DOMAIN oks : ~oks[k]}) <= faults}

\* The change records of a changelog, by version and position.
ChangeSlots(cl) ==
    UNION {{<<v, i>> : i \in 1..Len(cl.versions[v].changes)} :
               v \in DOMAIN cl.versions}

\* The change records of a changelog that name the todo.
LoggedFor(cl, todo_id) ==
    {s \in ChangeSlots(cl) : cl.versions[s[1]].changes[s[2]].todo_id = todo_id}

\* Number of change records with a todo.
NumLogged(cl) == Cardinality(ChangeSlots(cl) \ LoggedFor(cl, NoTodo))

\* Number of writes of a completion that failed.
FailedWrites(r, oks) ==
    (IF r.wrote /\ ~oks.todo THEN 1 ELSE 0)
        + Cardinality({i \in 1..Len(r.saves) : ~r.saves[i].ok})

\* add_todo with a title, a priority and a category.
AddTask ==
    \E args \in TaskInputs, ok \in WriteOutcomes :
        /\ Len(todos) < MaxTasks
        /\ Apply(add_todo(todos, dependencies, args[1], args[2], args[3],
                          NoFields, ok), ok)

CompleteTodoWithChangelog ==
    \E todo_id \in IdInputs, change_type \in ChangeTypeInputs,
       change_description \in DescriptionInputs,
       auto_version_bump \in BOOLEAN, oks \in WriteOutcomeVectors :
        LET r == complete_todo_with_changelog(todos, dependencies,
                     changelog_data, todo_id, change_type, change_description,
                     auto_version_bump, oks)
        IN /\ FailedWrites(r, oks) <= faults
           /\ NumLogged(r.changelog) <= MaxLogged
           /\ todos' = r.todos
           /\ dependencies' = r.dependencies
           /\ disk' \in IF r.wrote
                        THEN Written(disk, Document(r.todos, r.dependencies),
                                     oks.todo)
                        ELSE {disk}
           /\ changelog_data' = r.changelog
           /\ changelog_disk' \in _save_changelog(changelog_disk, r.saves)
           /\ faults' = faults - FailedWrites(r, oks)

\* Tasks are added and completed with a changelog entry.
NextCompletion ==
    \/ AddTask
    \/ CompleteTodoWithChangelog

\* Every write succeeds.
SpecCompletion == Init /\ [][NextCompletion]_vars

\* MaxWriteFailures of the writes fail.
SpecFaulty == InitFaulty /\ [][NextCompletion]_vars

\* The call a claim is about, made in the current state.
Complete(todo_id, change_type, change_description, auto_version_bump, oks) ==
    complete_todo_with_changelog(todos, dependencies, changelog_data, todo_id,
                                 change_type, change_description,
                                 auto_version_bump, oks)

\* The changes of a version, none when the changelog has no such version.
ChangesOf(cl, v) ==
    IF v \in DOMAIN cl.versions THEN cl.versions[v].changes ELSE <<>>

(***************************************************************************)
(* C14: a successful completeWithChangelog(id, type, description?, bump)   *)
(* on an existing task sets the status of that task to complete and stamps *)
(* its completed date, and appends exactly one change record to the        *)
(* version that is current at the call, with todo_id = id, the given type, *)
(* the description supplied or else the title of the task (an empty        *)
(* description counts as none), and the priority and the category of the   *)
(* task as auxiliary fields.                                               *)
(***************************************************************************)
C14_CompletionLogsOneChange ==
    \A todo_id \in TodoIds(todos), change_type \in ChangeTypeInputs,
       change_description \in DescriptionInputs,
       auto_version_bump \in BOOLEAN, oks \in OkVectors :
        LET r == Complete(todo_id, change_type, change_description,
                          auto_version_bump, oks)
            i == get_todo_by_id(todos, todo_id)
            v == changelog_data.current_version
            record == [type |-> change_type,
                       description |->
                           IF change_description \in {None, ""}
                           THEN todos[i].title ELSE change_description,
                       todo_id |-> todo_id,
                       todo_priority |-> todos[i].priority,
                       todo_category |-> todos[i].category]
        IN r.ret = TRUE
               => /\ r.todos = [todos EXCEPT ![i].status = "complete",
                                             ![i].completed_date = "today"]
                  /\ ChangesOf(r.changelog, v)
                         = Append(ChangesOf(changelog_data, v), record)
                  /\ Cardinality(LoggedFor(r.changelog, todo_id))
                         = Cardinality(LoggedFor(changelog_data, todo_id)) + 1
                  /\ \A u \in (DOMAIN changelog_data.versions) \ {v} :
                         ChangesOf(r.changelog, u) = ChangesOf(changelog_data, u)

\* A todo has been completed with a change record that took its title, its
\* priority and its category, next to a todo with other ones.
C14_Witness ==
    \E i \in 1..Len(todos), j \in 1..Len(todos) :
      \E s \in LoggedFor(changelog_data, todos[i].id) :
        LET record == changelog_data.versions[s[1]].changes[s[2]]
        IN /\ todos[i].status = "complete"
           /\ todos[i].completed_date = "today"
           /\ record.description = todos[i].title
           /\ record.todo_priority = todos[i].priority
           /\ record.todo_category = todos[i].category
           /\ todos[j].title # todos[i].title
           /\ todos[j].priority # todos[i].priority

\* MAJOR.MINOR.PATCH after an increment of the severity.
Advance(major, minor, patch, change_type) ==
    IF change_type = "feature" THEN FormatVersion(major, minor + 1, 0)
    ELSE IF change_type \in {"breaking", "major"}
         THEN FormatVersion(major + 1, 0, 0)
    ELSE FormatVersion(major, minor, patch + 1)

(***************************************************************************)
(* C15: with autoVersionBump true and steps 2 and 4 successful, the        *)
(* current version MAJOR.MINOR.PATCH advances by the severity of the       *)
(* change type: "feature" gives MAJOR.(MINOR+1).0, "breaking" or "major"   *)
(* gives (MAJOR+1).0.0, any other type gives MAJOR.MINOR.(PATCH+1); the    *)
(* new version becomes current_version and has an entry in versions, and   *)
(* the document holds the same once its last write succeeds.               *)
(***************************************************************************)
C15_BumpBySeverity ==
    /\ \E major \in PartRange, minor \in PartRange, patch \in PartRange :
           changelog_data.current_version = FormatVersion(major, minor, patch)
    /\ \A todo_id \in TodoIds(todos), change_type \in ChangeTypeInputs,
          change_description \in DescriptionInputs,
          oks \in {o \in OkVectors : o.todo /\ o.change},
          major \in PartRange, minor \in PartRange, patch \in PartRange :
           changelog_data.current_version = FormatVersion(major, minor, patch)
               => LET r == Complete(todo_id, change_type, change_description,
                                    TRUE, oks)
                      new_version == Advance(major, minor, patch, change_type)
                  IN /\ r.changelog.current_version = new_version
                     /\ new_version \in DOMAIN r.changelog.versions
                     /\ oks.bump
                            => _save_changelog(changelog_disk, r.saves)
                                   = {r.changelog}

\* The completion of a feature has moved the changelog and its document from
\* 1.0.0, where the feature is logged, to 1.1.0.
C15_Witness ==
    \E s \in ChangeSlots(changelog_data) :
        LET record == changelog_data.versions[s[1]].changes[s[2]]
        IN /\ s[1] = FormatVersion(1, 0, 0)
           /\ record.todo_id # NoTodo
           /\ record.type = "feature"
           /\ changelog_data.current_version = FormatVersion(1, 1, 0)
           /\ changelog_disk.current_version = FormatVersion(1, 1, 0)
           /\ FormatVersion(1, 1, 0) \in DOMAIN changelog_data.versions

(***************************************************************************)
(* C16: completeWithChangelog returns true if and only if the task was     *)
(* found, marking it complete succeeded (step 2) and appending the change  *)
(* record succeeded (step 4); the outcome of the version bump never        *)
(* changes the returned value; when the task is not found the call returns *)
(* false with the task store and the changelog store unchanged and nothing *)
(* written.                                                                *)
(***************************************************************************)
C16_ReturnsFoundAndLogged ==
    \A todo_id \in AnyId, change_type \in ChangeTypeInputs,
       change_description \in DescriptionInputs,
       auto_version_bump \in BOOLEAN, oks \in OkVectors :
        LET r == Complete(todo_id, change_type, change_description,
                          auto_version_bump, oks)
            found == \E i \in 1..Len(todos) : todos[i].id = todo_id
        IN /\ r.ret = (found /\ oks.todo /\ oks.change)
           /\ ~found => /\ r.ret = FALSE
                        /\ r.todos = todos
                        /\ r.dependencies = dependencies
                        /\ r.changelog = changelog_data
                        /\ r.wrote = FALSE
                        /\ r.saves = <<>>

\* A todo is complete and logged, both documents hold what the stores hold,
\* and another id names no todo.
C16_Witness ==
    /\ \E i \in 1..Len(todos) :
           /\ todos[i].status = "complete"
           /\ LoggedFor(changelog_data, todos[i].id) # {}
    /\ disk = Document(todos, dependencies)
    /\ changelog_disk = changelog_data
    /\ \E todo_id \in IdInputs : todo_id \notin TodoIds(todos)

\* The change records of a changelog document that name the todo; a torn
\* document holds none.
DurableLoggedFor(document, todo_id) ==
    IF document = Torn THEN {} ELSE LoggedFor(document, todo_id)

\* Results of the writes where step 2 succeeds and step 4 fails.
LoggingFails == {oks \in OkVectors : oks.todo /\ ~oks.change}

\* complete_todo_with_changelog has left the todo complete, returned False
\* and made no version bump.
CompleteUnbumped(r, todo_id) ==
    /\ r.ret = FALSE
    /\ r.todos[get_todo_by_id(r.todos, todo_id)].status = "complete"
    /\ r.wrote
    /\ r.changelog.current_version = changelog_data.current_version
    /\ DOMAIN r.changelog.versions = DOMAIN changelog_data.versions
    /\ Len(r.saves) = 1

(***************************************************************************)
(* C17 as stated: if marking the task complete succeeds and appending the  *)
(* change record fails, the call returns false, the task is left complete, *)
(* no version bump is performed, and neither the in-memory record set nor  *)
(* the durable document of the changelog holds a change record with        *)
(* todo_id equal to the task id.                                           *)
(***************************************************************************)
C17_Original ==
    \A todo_id \in TodoIds(todos), change_type \in ChangeTypeInputs,
       change_description \in DescriptionInputs,
       auto_version_bump \in BOOLEAN, oks \in LoggingFails :
        LET r == Complete(todo_id, change_type, change_description,
                          auto_version_bump, oks)
        IN /\ CompleteUnbumped(r, todo_id)
           /\ LoggedFor(r.changelog, todo_id) = {}
           /\ \A document \in _save_changelog(changelog_disk, r.saves) :
                  DurableLoggedFor(document, todo_id) = {}

(***************************************************************************)
(* C17, amended: if marking the task complete succeeds and appending the   *)
(* change record fails, the call returns false, the task is left complete, *)
(* no version bump is performed, and the durable document of the changelog *)
(* holds no change record with todo_id equal to the task id that it did    *)
(* not hold before the call, while the in-memory record set keeps the      *)
(* record the call appended to the current version.                        *)
(***************************************************************************)
C17_FailedLoggingStaysInMemory ==
    \A todo_id \in TodoIds(todos), change_type \in ChangeTypeInputs,
       change_description \in DescriptionInputs,
       auto_version_bump \in BOOLEAN, oks \in LoggingFails :
        LET r == Complete(todo_id, change_type, change_description,
                          auto_version_bump, oks)
            v == changelog_data.current_version
        IN /\ CompleteUnbumped(r, todo_id)
           /\ LoggedFor(r.changelog, todo_id)
                  = LoggedFor(changelog_data, todo_id)
                        \cup {<<v, Len(ChangesOf(changelog_data, v)) + 1>>}
           /\ \A document \in _save_changelog(changelog_disk, r.saves) :
                  DurableLoggedFor(document, todo_id)
                      \subseteq DurableLoggedFor(changelog_disk, todo_id)

\* The write of a change record has failed: the todo is complete, the
\* changelog in memory names it, its document does not, and the version is
\* the initial one.
C17_Witness ==
    \E i \in 1..Len(todos) :
        /\ todos[i].status = "complete"
        /\ disk = Document(todos, dependencies)
        /\ LoggedFor(changelog_data, todos[i].id) # {}
        /\ DurableLoggedFor(changelog_disk, todos[i].id) = {}
        /\ changelog_data.current_version = InitialVersion
        /\ DOMAIN changelog_data.versions = {InitialVersion}

(***************************************************************************)
(* The task store with every way to change a record, on a file system      *)
(* where writes can fail.                                                  *)
(***************************************************************************)

\* update_todo_priority
update_todo_priority(ts, deps, todo_id, priority, ok) ==
    LET todo == get_todo_by_id(ts, todo_id)
    IN IF todo # 0
       THEN Outcome([ts EXCEPT ![todo] = [@ EXCEPT !.priority = priority]],
                    deps, TRUE, ok)
       ELSE Outcome(ts, deps, FALSE, FALSE)

\* update_todo: merges the fields onto the record, whatever they are.
update_todo(ts, deps, todo_id, updates, ok) ==
    LET todo == get_todo_by_id(ts, todo_id)
    IN IF todo # 0
       THEN Outcome([ts EXCEPT ![todo] = DictUpdate(@, updates)], deps, TRUE,
                    ok)
       ELSE Outcome(ts, deps, FALSE, FALSE)

\* Priorities the callers pass to update_todo_priority.
PriorityInputs == {1}

\* Fields the callers pass to update_todo and, as custom fields, to add_todo.
FieldInputs == {[priority |-> 1]} \cup {[id |-> i] : i \in 1..MaxTasks}

\* add_todo with or without custom fields.
AddTodoWith ==
    \E custom_fields \in {NoFields} \cup FieldInputs, ok \in WriteOutcomes :
        /\ Len(todos) < MaxTasks
        /\ MaxTodoId(todos) < MaxId
        /\ Apply(add_todo(todos, dependencies, DefaultTitle, DefaultPriority,
                          DefaultCategory, custom_fields, ok), ok)

UpdateTodoPriority ==
    \E todo_id \in IdInputs, priority \in PriorityInputs,
       ok \in WriteOutcomes :
        Apply(update_todo_priority(todos, dependencies, todo_id, priority, ok),
              ok)

UpdateTodo ==
    \E todo_id \in IdInputs, updates \in FieldInputs, ok \in WriteOutcomes :
        Apply(update_todo(todos, dependencies, todo_id, updates, ok), ok)

\* add_dependency while the index holds fewer than MaxStoreEdges edges.
AddStoreDependency ==
    /\ AddDependency
    /\ NumEdges(dependencies') <= MaxStoreEdges

\* Every operation of the task store, the updates of fields included.
NextStore ==
    \/ AddTodoWith
    \/ UpdateTodoStatus
    \/ UpdateTodoPriority
    \/ UpdateTodo
    \/ DeleteTodo
    \/ AddStoreDependency
    \/ RemoveDependency

SpecStore == InitFaulty /\ [][NextStore]_vars

\* The call whose write failed, f, kept what the same call with a good
\* write, s, did to the store.
MutationKept(f, s) ==
    /\ f.todos = s.todos
    /\ f.dependencies = s.dependencies
    /\ f.wrote = s.wrote

\* Whatever call is made in the current state, a failed write makes it
\* return False, or -1 for add_todo, and keeps its change of the store.
FailureReported ==
    /\ \A custom_fields \in {NoFields} \cup FieldInputs :
           LET f == add_todo(todos, dependencies, DefaultTitle,
                             DefaultPriority, DefaultCategory, custom_fields,
                             FALSE)
               s == add_todo(todos, dependencies, DefaultTitle,
                             DefaultPriority, DefaultCategory, custom_fields,
                             TRUE)
           IN f.wrote /\ f.ret = -1 /\ MutationKept(f, s)
    /\ \A todo_id \in IdInputs :
           /\ \A status \in StatusInputs :
                  LET f == update_todo_status(todos, dependencies, todo_id,
                                              status, FALSE)
                      s == update_todo_status(todos, dependencies, todo_id,
                                              status, TRUE)
                  IN f.wrote => f.ret = FALSE /\ MutationKept(f, s)
           /\ \A updates \in FieldInputs :
                  LET f == update_todo(todos, dependencies, todo_id, updates,
                                       FALSE)
                      s == update_todo(todos, dependencies, todo_id, updates,
                                       TRUE)
                  IN f.wrote => f.ret = FALSE /\ MutationKept(f, s)
           /\ LET f == delete_todo(todos, dependencies, todo_id, FALSE)
                  s == delete_todo(todos, dependencies, todo_id, TRUE)
              IN f.wrote => f.ret = FALSE /\ MutationKept(f, s)
           /\ \A depends_on_id \in IdInputs :
                  /\ LET f == add_dependency(todos, dependencies, todo_id,
                                             depends_on_id, FALSE)
                         s == add_dependency(todos, dependencies, todo_id,
                                             depends_on_id, TRUE)
                     IN f.wrote => f.ret = FALSE /\ MutationKept(f, s)
                  /\ LET f == remove_dependency(todos, dependencies, todo_id,
                                                depends_on_id, FALSE)
                         s == remove_dependency(todos, dependencies, todo_id,
                                                depends_on_id, TRUE)
                     IN f.wrote => f.ret = FALSE /\ MutationKept(f, s)

(***************************************************************************)
(* C18: when the write of the task document fails during add,              *)
(* updateStatus, updateFields, delete, addDependency or removeDependency,  *)
(* the operation reports failure (false, or -1 for add), the in-memory     *)
(* mutation is kept, the durable document keeps its previous content, and  *)
(* the write is attempted once.                                            *)
(***************************************************************************)
C18_FailedWriteKeepsDocument ==
    [][faults' < faults
           => /\ FailureReported
              /\ disk' = disk
              /\ faults' = faults - 1]_vars

\* The three parts of C18 that hold of every step.
C18_ReportedKeptOnce ==
    [][faults' < faults
           => /\ FailureReported
              /\ disk' \in {disk, Torn}
              /\ faults' = faults - 1]_vars

\* add_todo with the default arguments and a good write, on a store.
Add(ts, deps, custom_fields) ==
    add_todo(ts, deps, DefaultTitle, DefaultPriority, DefaultCategory,
             custom_fields, TRUE)

\* Number of records of a store with the id.
Holders(ts, id) == Cardinality({i \in 1..Len(ts) : ts[i].id = id})

(***************************************************************************)
(* C19: every successful add returns max(existing ids) + 1, or 1 when the  *)
(* store is empty, and the returned id is held by exactly one task of the  *)
(* store, the new one; an id returned by add is strictly greater than the  *)
(* id returned by an earlier add on the same store, whatever was deleted   *)
(* in between.                                                             *)
(***************************************************************************)
C19_FreshMonotonicIds ==
    \A custom_fields \in {NoFields} \cup FieldInputs :
        LET first == Add(todos, dependencies, custom_fields)
        IN /\ first.ret = IF todos = <<>> THEN 1
                          ELSE 1 + CHOOSE m \in TodoIds(todos) :
                                       \A n \in TodoIds(todos) : n <= m
           /\ Holders(first.todos, first.ret) = 1
           /\ first.todos[Len(first.todos)].id = first.ret
           /\ \A todo_id \in AnyId :
                  LET deleted == delete_todo(first.todos, first.dependencies,
                                             todo_id, TRUE)
                      second == Add(deleted.todos, deleted.dependencies,
                                    NoFields)
                  IN second.ret > first.ret

\* No two records of the store share an id.
UniqueIds(ts) == \A i \in 1..Len(ts), j \in 1..Len(ts) : ts[i].id = ts[j].id => i = j

(***************************************************************************)
(* C20: the id of a task is immutable once assigned: no operation of the   *)
(* task store (updateStatus, updatePriority, updateFields with arbitrary   *)
(* fields, add with custom fields) changes the id of an existing record or *)
(* makes two records share an id.                                          *)
(***************************************************************************)
C20_IdImmutable ==
    [][/\ Len(todos') >= Len(todos)
              => \A i \in 1..Len(todos) : todos'[i].id = todos[i].id
       /\ UniqueIds(todos) => UniqueIds(todos')]_vars

\* Titles the callers pass to add_todo: an empty one, a text.
TitleInputs == {"", DefaultTitle}

(***************************************************************************)
(* C21: add with an empty title fails: it reports failure, creates no task *)
(* record and leaves the store unchanged; add fails for no other input.    *)
(***************************************************************************)
C21_EmptyTitleRejected ==
    \A title \in TitleInputs, custom_fields \in {NoFields} \cup FieldInputs :
        LET r == add_todo(todos, dependencies, title, DefaultPriority,
                          DefaultCategory, custom_fields, TRUE)
        IN IF title = ""
           THEN /\ r.ret = -1
                /\ r.todos = todos
                /\ r.dependencies = dependencies
                /\ ~r.wrote
           ELSE /\ r.ret # -1
                /\ Len(r.todos) = Len(todos) + 1

(***************************************************************************)
(* The document as it is written and read: json.dump, json.load and        *)
(* _load_todos.                                                            *)
(***************************************************************************)

\* The fields of a record that hold a text or None; the others hold a
\* number or a text.
OptionalFields == {"completed_date"}

\* The JSON text of an optional value: null for None.
JsonValue(v) == IF v = None THEN "null" ELSE v

\* The value json.load makes of such a text.
PyValue(j) == IF j = "null" THEN None ELSE j

\* json.dump of the store: every record and the index, key by key; the keys
\* of a JSON object are strings.
JsonDump(data) ==
    [todos |-> [i \in 1..Len(data.todos) |->
                   [k \in DOMAIN data.todos[i] |->
                       IF k \in OptionalFields
                       THEN JsonValue(data.todos[i][k])
                       ELSE data.todos[i][k]]],
     dependencies |-> [key \in DOMAIN data.dependencies |->
                          data.dependencies[key]]]

\* json.load of a text json.dump has written.
JsonLoad(text) ==
    [todos |-> [i \in 1..Len(text.todos) |->
                   [k \in DOMAIN text.todos[i] |->
                       IF k \in OptionalFields
                       THEN PyValue(text.todos[i][k])
                       ELSE text.todos[i][k]]],
     dependencies |-> text.dependencies]

\* _load_todos that takes the records of the document and starts with an
\* empty index.
_load_todos_fresh_index(document) ==
    IF document = Torn THEN Document(<<>>, EmptyDict)
    ELSE Document(JsonLoad(JsonDump(document)).todos, EmptyDict)

\* _load_todos of an existing file: what it holds, or the default structure
\* when json.load raises on a torn text.
_load_todos(document) ==
    IF document = Torn THEN Document(<<>>, EmptyDict)
    ELSE JsonLoad(JsonDump(document))

\* The task store with the updates of fields, every write succeeding.
SpecReliable == Init /\ [][NextStore]_vars

Loaded == _load_todos(disk)

\* The document after a call with outcome r on a file system that takes the
\* write.
DocumentAfter(document, r) ==
    IF r.wrote
    THEN CHOOSE d \in Written(document, Document(r.todos, r.dependencies),
                              TRUE) : TRUE
    ELSE document

\* The outcomes of the calls, other than add_todo, that change a store and
\* write it.
Changes(inst) ==
    {r \in {update_todo_status(inst.todos, inst.dependencies, todo_id,
                               status, TRUE) :
                todo_id \in IdInputs, status \in StatusInputs}
           \cup {update_todo(inst.todos, inst.dependencies, todo_id, updates,
                             TRUE) :
                     todo_id \in IdInputs, updates \in FieldInputs}
           \cup {delete_todo(inst.todos, inst.dependencies, todo_id, TRUE) :
                     todo_id \in IdInputs}
           \cup {add_dependency(inst.todos, inst.dependencies, todo_id,
                                depends_on_id, TRUE) :
                     todo_id \in IdInputs, depends_on_id \in IdInputs}
           \cup {remove_dependency(inst.todos, inst.dependencies, todo_id,
                                   depends_on_id, TRUE) :
                     todo_id \in IdInputs, depends_on_id \in IdInputs} :
        r.wrote}

\* After the write of first and then of second, the document is what the
\* store of second holds.
SecondWins(first, second) ==
    LET document == DocumentAfter(DocumentAfter(disk, first), second)
    IN /\ first.wrote /\ second.wrote
       /\ _load_todos(document) = Document(second.todos, second.dependencies)

Max(S) == IF S = {} THEN 0 ELSE CHOOSE m \in S : \A n \in S : n <= m

\* The ids an index mentions, as a key or in a list.
IndexIds(deps) ==
    {int(k) : k \in DOMAIN deps}
        \cup UNION {{deps[k][i] : i \in 1..Len(deps[k])} : k \in DOMAIN deps}

\* Frames of _get_dependencies_recursive on the stack at its deepest, the
\* call itself included; the count stops at frames frames.  This one hands
\* the visited set of its caller on, without the id of the call.
RECURSIVE DependenciesDepth_unmarked(_, _, _, _)
DependenciesDepth_unmarked(deps, todo_id, visited, frames) ==
    IF frames <= 1 \/ todo_id \in visited THEN 1
    ELSE LET todo_deps == DictGet(deps, str(todo_id))
             direct == {todo_deps[i] : i \in 1..Len(todo_deps)}
         IN 1 + Max({DependenciesDepth_unmarked(deps, dep_id, visited,
                                                frames - 1) :
                         dep_id \in direct})

\* Frames of _get_dependencies_recursive on the stack at its deepest, the
\* call itself included; the count stops at frames frames.
RECURSIVE DependenciesDepth(_, _, _, _)
DependenciesDepth(deps, todo_id, visited, frames) ==
    IF frames <= 1 \/ todo_id \in visited THEN 1
    ELSE LET visited1 == visited \cup {todo_id}
             todo_deps == DictGet(deps, str(todo_id))
             direct == {todo_deps[i] : i \in 1..Len(todo_deps)}
         IN 1 + Max({DependenciesDepth(deps, dep_id, visited1, frames - 1) :
                         dep_id \in direct})

\* The same for _get_dependents_recursive.
RECURSIVE DependentsDepth(_, _, _, _)
DependentsDepth(deps, todo_id, visited, frames) ==
    IF frames <= 1 \/ todo_id \in visited THEN 1
    ELSE LET visited1 == visited \cup {todo_id}
             direct == {int(k) : k \in {key \in DOMAIN deps :
                                            InList(todo_id, deps[key])}}
         IN 1 + Max({DependentsDepth(deps, dependent_id, visited1,
                                     frames - 1) :
                         dependent_id \in direct})

(***************************************************************************)
(* C24: dependencyChain(t) terminates for every task id t and every        *)
(* adjacency index, an index with a cycle or a self-edge included: each    *)
(* recursive branch stops when it meets a node that is on its own path, so *)
(* no branch is deeper than the number of ids plus one.                    *)
(***************************************************************************)
C24_TraversalTerminates ==
    \A t \in AnyId :
        LET ids == Cardinality(IndexIds(dependencies) \cup {t})
        IN /\ DependenciesDepth(dependencies, t, {}, ids + 3) <= ids + 1
           /\ DependentsDepth(dependencies, t, {}, ids + 3) <= ids + 1

\* The index holds a self-edge and a cycle of two other ids, and the chain
\* of an id on the cycle holds both.
C24_Witness ==
    \E s \in AnyId, a \in AnyId, b \in AnyId :
        /\ a # b /\ s # a /\ s # b
        /\ InList(s, DictGet(dependencies, str(s)))
        /\ InList(b, DictGet(dependencies, str(a)))
        /\ InList(a, DictGet(dependencies, str(b)))
        /\ get_dependency_chain(dependencies, a).dependencies = {a, b}
        /\ get_dependency_chain(dependencies, a).dependents = {a, b}

\* The record bump_version logs for the completion of a todo.
BumpRecord(todo_id) ==
    [type |-> "docs",
     description |-> "Auto-bump for completed todo #" \o ToString(todo_id),
     todo_id |-> NoTodo]

(***************************************************************************)
(* C25: ordering in completeWithChangelog with autoVersionBump true: the   *)
(* change record with todo_id = taskId is appended before the bump and is  *)
(* stored under the version that was current when the call started; the    *)
(* newly created version holds only one record, of type "docs", carrying   *)
(* the auto-bump message with todo_id null; and current_version is         *)
(* switched to the new version only after that.                            *)
(***************************************************************************)
C25_LoggedThenBumped ==
    \A todo_id \in TodoIds(todos), change_type \in ChangeTypeInputs,
       change_description \in DescriptionInputs,
       oks \in {o \in OkVectors : o.todo /\ o.change} :
        LET r == Complete(todo_id, change_type, change_description, TRUE, oks)
            old == changelog_data.current_version
            new == r.changelog.current_version
            before == ChangesOf(changelog_data, old)
        IN /\ new # old
           /\ new \notin DOMAIN changelog_data.versions
           /\ Len(r.saves) = 3
           /\ LET logged == r.saves[1].data
              IN /\ logged.current_version = old
                 /\ new \notin DOMAIN logged.versions
                 /\ Len(ChangesOf(logged, old)) = Len(before) + 1
                 /\ ChangesOf(logged, old)[Len(before) + 1].todo_id = todo_id
           /\ LET noted == r.saves[2].data
              IN /\ noted.current_version = old
                 /\ ChangesOf(noted, new) = <<BumpRecord(todo_id)>>
                 /\ ChangesOf(noted, old) = ChangesOf(r.saves[1].data, old)
           /\ LET switched == r.saves[3].data
              IN /\ switched = r.changelog
                 /\ switched.current_version = new
                 /\ ChangesOf(switched, new) = <<BumpRecord(todo_id)>>
                 /\ ChangesOf(switched, old) = ChangesOf(r.saves[1].data, old)

\* A completion has bumped the version: the current version holds the
\* message of the bump alone, the one before it the record of the todo.
C25_Witness ==
    \E todo_id \in TodoIds(todos) :
        /\ changelog_data.current_version # InitialVersion
        /\ ChangesOf(changelog_data, changelog_data.current_version)
               = <<BumpRecord(todo_id)>>
        /\ \E s \in LoggedFor(changelog_data, todo_id) : s[1] = InitialVersion
        /\ changelog_disk = changelog_data

(***************************************************************************)
(* C26: a task freshly created by add has no dependency edges: in every    *)
(* state reachable by add, delete, addDependency and removeDependency,     *)
(* immediately after add returns id N, dependencyChain(N) has empty        *)
(* dependencies and empty dependents and N is not in blockedTasks().       *)
(***************************************************************************)
C26_FreshTaskHasNoEdges ==
    [][Len(todos') = Len(todos) + 1
           => LET N == todos'[Len(todos')].id
                  chain == get_dependency_chain(dependencies', N)
              IN /\ chain.dependencies = {}
                 /\ chain.dependents = {}
                 /\ N \notin get_blocked_todos(todos', dependencies')]_vars

\* The store where no todo is ever deleted.
NextNoDelete ==
    \/ AddTodo
    \/ UpdateTodoStatus
    \/ AddDependency
    \/ RemoveDependency

SpecNoDelete == Init /\ [][NextNoDelete]_vars

(***************************************************************************)
(* C27: progress is always possible: in every state reachable by add,      *)
(* addDependency, removeDependency and updateStatus (no delete), if at     *)
(* least one task is not complete then unblockedTasks() is non-empty, so   *)
(* that completing an unblocked task again and again completes every task. *)
(***************************************************************************)
C27_SomeTaskUnblocked ==
    NotCompleteIds(todos) # {} => get_unblocked_todos(todos, dependencies) # {}

(***************************************************************************)
(* The completion as the changelog store offers it.                        *)
(***************************************************************************)

\* complete_todo_and_log that logs the change although complete_todo has
\* returned False.
complete_todo_and_log_unchecked(cl, ts, deps, todo_id, change_type, auto_bump, oks) ==
    LET todo == get_todo_by_id(ts, todo_id)
        completed == update_todo_status(ts, deps, todo_id, "complete",
                                        oks.todo)
        logged == add_change_from_todo(cl, completed.todos, todo_id,
                                       change_type, None, oks.change)
        bumped == bump_version(logged.changelog, BumpType(change_type),
                               "Auto-bump for completed todo #"
                                   \o ToString(todo_id),
                               oks.message, oks.bump)
    IN IF todo = 0
       THEN CompletionOutcome(ts, deps, FALSE, cl, <<>>, FALSE)
       ELSE IF ShouldBump(logged.ret, auto_bump)
       THEN CompletionOutcome(completed.todos, deps, TRUE, bumped.changelog,
                              logged.saves \o bumped.saves, logged.ret)
       ELSE CompletionOutcome(completed.todos, deps, TRUE, logged.changelog,
                              logged.saves, logged.ret)

\* _VersionManager.complete_todo_and_log, on the store of todo_manager.
complete_todo_and_log(cl, ts, deps, todo_id, change_type, auto_bump, oks) ==
    LET todo == get_todo_by_id(ts, todo_id)
        completed == update_todo_status(ts, deps, todo_id, "complete",
                                        oks.todo)
        logged == add_change_from_todo(cl, completed.todos, todo_id,
                                       change_type, None, oks.change)
        bumped == bump_version(logged.changelog, BumpType(change_type),
                               "Auto-bump for completed todo #"
                                   \o ToString(todo_id),
                               oks.message, oks.bump)
    IN IF todo = 0
       THEN CompletionOutcome(ts, deps, FALSE, cl, <<>>, FALSE)
       ELSE IF ~completed.ret
       THEN CompletionOutcome(completed.todos, deps, completed.wrote, cl,
                              <<>>, FALSE)
       ELSE IF ShouldBump(logged.ret, auto_bump)
       THEN CompletionOutcome(completed.todos, deps, TRUE, bumped.changelog,
                              logged.saves \o bumped.saves, logged.ret)
       ELSE CompletionOutcome(completed.todos, deps, TRUE, logged.changelog,
                              logged.saves, logged.ret)

\* The store with the title of every record emptied, as add_todo('') and
\* update_todo(id, title='') leave it.
Untitled(ts) == [i \in 1..Len(ts) |-> [ts[i] EXCEPT !.title = ""]]

(***************************************************************************)
(* C28: the two completion entry points are equivalent: from the same      *)
(* state of the task store and of the changelog store,                     *)
(* complete_todo_and_log(id, todoManager, type, autoBump) and              *)
(* complete_todo_with_changelog(id, versionManager, type, no description,  *)
(* autoBump) return the same boolean and leave both stores, and both       *)
(* documents, in the same state, for every id, change type and autoBump.   *)
(***************************************************************************)
C28_EntryPointsEquivalent ==
    \A ts \in {todos, Untitled(todos)}, todo_id \in AnyId,
       change_type \in ChangeTypeInputs, auto_bump \in BOOLEAN,
       oks \in OkVectors :
        complete_todo_and_log(changelog_data, ts, dependencies, todo_id,
                              change_type, auto_bump, oks)
            = complete_todo_with_changelog(ts, dependencies, changelog_data,
                                           todo_id, change_type, None,
                                           auto_bump, oks)

\* Two todos, one complete and logged under the initial version, one not
\* complete, and a version bumped since.
C28_Witness ==
    /\ Len(todos) = 2
    /\ \E i \in 1..Len(todos), j \in 1..Len(todos) :
           /\ todos[i].status = "complete"
           /\ todos[j].status = "todo"
           /\ \E s \in LoggedFor(changelog_data, todos[i].id) :
                  s[1] = InitialVersion
    /\ changelog_data.current_version # InitialVersion

(***************************************************************************)
(* Both stores on a file system where writes can fail: every operation of  *)
(* the task store, and the changes and bumps of the changelog store.       *)
(***************************************************************************)

\* Change records the changelog holds at most.
MaxChanges == 3

\* Versions the changelog holds at most.
MaxVersions == 2

\* Messages the callers pass to bump_version: none, a text.
MessageInputs == {None, "Release"}

\* add_change of a record without a todo to the current version.
AddChange ==
    \E change_type \in {"bug"}, ok \in WriteOutcomes :
        LET r == add_change(changelog_data, change_type, "Users can sign in",
                            NoTodo, None, NoFields, ok)
        IN /\ Cardinality(ChangeSlots(r.changelog)) <= MaxChanges
           /\ changelog_data' = r.changelog
           /\ changelog_disk' \in _save_changelog(changelog_disk, r.saves)
           /\ faults' = IF ok THEN faults ELSE faults - 1
           /\ UNCHANGED <<todos, dependencies, disk>>

\* bump_version('patch', message)
BumpVersion ==
    \E message \in MessageInputs, ok_message \in BOOLEAN, ok \in BOOLEAN :
        LET r == bump_version(changelog_data, "patch", message, ok_message, ok)
            failed == Cardinality({i \in 1..Len(r.saves) : ~r.saves[i].ok})
        IN /\ Falsy(message) => ok_message
           /\ failed <= faults
           /\ Cardinality(DOMAIN r.changelog.versions) <= MaxVersions
           /\ Cardinality(ChangeSlots(r.changelog)) <= MaxChanges
           /\ changelog_data' = r.changelog
           /\ changelog_disk' \in _save_changelog(changelog_disk, r.saves)
           /\ faults' = faults - failed
           /\ UNCHANGED <<todos, dependencies, disk>>

\* add_todo while the store holds fewer than MaxTasks records.
AddPendingTodo ==
    /\ AddTodo
    /\ Len(todos') <= MaxTasks

NextPending ==
    \/ AddPendingTodo
    \/ UpdateTodoStatus
    \/ DeleteTodo
    \/ AddStoreDependency
    \/ RemoveDependency
    \/ AddChange
    \/ BumpVersion

SpecPending == InitFaulty /\ [][NextPending]_vars

\* Whatever call of the changelog store is made in the current state, a
\* failed write leaves in changelog_data what the same call with good
\* writes leaves there, and add_change reports it.
ChangeKept ==
    /\ LET f == add_change(changelog_data, "bug", "Users can sign in",
                           NoTodo, None, NoFields, FALSE)
           s == add_change(changelog_data, "bug", "Users can sign in",
                           NoTodo, None, NoFields, TRUE)
       IN f.ret = FALSE /\ f.changelog = s.changelog
    /\ \A message \in MessageInputs, ok_message \in BOOLEAN, ok \in BOOLEAN :
           LET f == bump_version(changelog_data, "patch", message,
                                 ok_message, ok)
               s == bump_version(changelog_data, "patch", message, TRUE, TRUE)
           IN /\ f.changelog = s.changelog
              /\ ~ok => f.ret = changelog_data.current_version

\* Whatever call of the task store succeeds in the current state, it has
\* written the document.
SuccessWritten ==
    /\ \A custom_fields \in {NoFields} \cup FieldInputs :
           add_todo(todos, dependencies, DefaultTitle, DefaultPriority,
                    DefaultCategory, custom_fields, TRUE).wrote
    /\ \A todo_id \in IdInputs :
           /\ \A status \in StatusInputs :
                  LET s == update_todo_status(todos, dependencies, todo_id,
                                              status, TRUE)
                  IN s.ret => s.wrote
           /\ LET s == delete_todo(todos, dependencies, todo_id, TRUE)
              IN s.ret => s.wrote
           /\ \A depends_on_id \in IdInputs :
                  /\ LET s == add_dependency(todos, dependencies, todo_id,
                                             depends_on_id, TRUE)
                     IN s.ret => s.wrote
                  /\ LET s == remove_dependency(todos, dependencies, todo_id,
                                                depends_on_id, TRUE)
                     IN s.ret => s.wrote

(***************************************************************************)
(* C29: a mutation that was reported as failed because the write of the    *)
(* document failed is not lost: it stays in the in-memory state of the     *)
(* store, and the next successful mutating operation on the same instance  *)
(* writes it to the durable document together with its own change, in the  *)
(* task store and in the changelog store: a failed write leaves the store  *)
(* as the good write does, a call that succeeds has written, and after a   *)
(* call whose writes succeeded the document is the whole in-memory state.  *)
(***************************************************************************)
C29_FailedMutationWrittenLater ==
    /\ [](FailureReported /\ ChangeKept /\ SuccessWritten)
    /\ [][faults' = faults
              => /\ <<todos, dependencies>>' # <<todos, dependencies>>
                     => disk' = Document(todos', dependencies')
                 /\ changelog_data' # changelog_data
                     => changelog_disk' = changelog_data']_vars

\* A write has failed, of either store, and a later one has stored both
\* tasks, the edge between them and both changes of the bumped changelog.
C29_Witness ==
    /\ faults < MaxWriteFailures
    /\ Len(todos) = MaxTasks
    /\ NumEdges(dependencies) = MaxStoreEdges
    /\ disk = Document(todos, dependencies)
    /\ Cardinality(ChangeSlots(changelog_data)) = MaxChanges
    /\ Cardinality(DOMAIN changelog_data.versions) = MaxVersions
    /\ changelog_disk = changelog_data

\* delete_todo(p) has just removed the record of p and left the index alone.
Deleted(p) ==
    /\ p \in TodoIds(todos)
    /\ todos' = delete_todo(todos, dependencies, p, TRUE).todos
    /\ dependencies' = dependencies

\* t is not complete and has a direct prerequisite without a complete
\* record: one that was deleted, or one that is not complete.
HeldBack(ts, deps, t) ==
    /\ t \in NotCompleteIds(ts)
    /\ \E p \in DirectPrereqs(deps, t) : ~IsComplete(ts, p)

(***************************************************************************)
(* C30: a dangling prerequisite counts as incomplete: after delete(P) of a *)
(* task P that is a direct prerequisite of a task T that is not complete,  *)
(* T is in blockedTasks(); and T stays there for as long as the edge       *)
(* T -> P is in the index, T is not complete and no complete task has the  *)
(* id P, whatever the status of the other tasks becomes.                   *)
(***************************************************************************)
C30_DanglingPrerequisiteBlocks ==
    /\ [][\A t \in NotCompleteIds(todos) :
              \A p \in DirectPrereqs(dependencies, t) :
                  Deleted(p)
                      => t \in get_blocked_todos(todos', dependencies')]_vars
    /\ [](\A t \in TodoIds(todos) :
              HeldBack(todos, dependencies, t)
                  => t \in get_blocked_todos(todos, dependencies))

====
